---- MODULE Spec2Model ----
(***************************************************************************)
(* A model of steam/ext/csgo/state.py: the GCState session flags, the       *)
(* handlers registered for the Game Coordinator messages, and the merge of  *)
(* shared-object payloads into the backpack done by update_backpack.        *)
(*                                                                         *)
(* Handlers that are coroutines run as tasks of one event loop: a step of   *)
(* the model is the code a task runs between two awaits.                    *)
(*                                                                         *)
(* Optional values (Python None) are sequences: <<>> is None, <<v>> is v.   *)
(* Byte strings and text are sequences of numbers.                          *)
(***************************************************************************)
EXTENDS Integers, Sequences, FiniteSets, TLC

\* ------------------------------------------------------------------ bounds
MaxTasks == 2
MaxMsgs == 2

\* ------------------------------------------------------- program constants
CASKET_LOW == 272
CASKET_HIGH == 273
CUSTOM_NAME == 111
PAINT_INDEX == 6
PAINT_SEED == 7
PAINT_WEAR == 8
TRADABLE_AFTER == 75
STICKER_BASE == 113
STORAGE_UNIT == 1201
ITEM_COUNT == 270
ITEM_TYPE == 1
NEW_BIT == 30
POSITION_MASK == 65536

None == <<>>
Some(v) == <<v>>

\* F applied to the value of x (x is evaluated once)
Val(F(_), x) == CHOOSE r \in {F(y) : y \in {x}} : TRUE

RECURSIVE Pow2(_)
Pow2(n) == IF n = 0 THEN 1 ELSE 2 * Pow2(n - 1)

\* ------------------------------------------------------- attribute decoder

\* utils.get(iterable, def_index=d): the first element that matches, or None
Get(attrs, d) ==
    LET idx == {i \in 1..Len(attrs) : attrs[i].def_index = d}
    IN  IF idx = {} THEN None
        ELSE Some(attrs[CHOOSE i \in idx : \A j \in idx : i <= j])

\* struct.Struct("<I").unpack_from / ("<f").unpack_from need 4 bytes
CanRead4(bytes) == Len(bytes) >= 4

READ_U32(bytes) ==
    bytes[1] + 256 * bytes[2] + 65536 * bytes[3] + 16777216 * bytes[4]

\* the IEEE-754 single read from little-endian bytes, as its three fields
READ_F32(bytes) ==
    [sign |-> bytes[4] \div 128,
     exp  |-> (bytes[4] % 128) * 2 + bytes[3] \div 128,
     man  |-> (bytes[3] % 128) * 65536 + bytes[2] * 256 + bytes[1]]

\* math.floor of a single (finite, of magnitude below 2^24)
Floor(f) ==
    LET sig   == 8388608 + f.man
        shift == 150 - f.exp
        whole == IF shift >= 24 THEN 0 ELSE sig \div Pow2(shift)
        exact == shift < 24 /\ whole * Pow2(shift) = sig
    IN  IF f.exp = 0
        THEN (IF f.sign = 1 /\ f.man # 0 THEN -1 ELSE 0)
        ELSE IF f.sign = 0 THEN whole
        ELSE IF exact THEN -whole ELSE -whole - 1

\* bin(n)[2:] has one digit for 0
RECURSIVE BitLen(_)
BitLen(n) == IF n < 2 THEN 1 ELSE 1 + BitLen(n \div 2)

\* int(bin(a)[2:] + bin(b)[2:], 2)
BinConcat(a, b) == a * Pow2(BitLen(b)) + b

\* bytes.decode("utf-8") on the bytes the model uses: ASCII decodes to its
\* code points, a byte of 0x80 and above does not start a valid sequence here
CanDecode(bytes) == \A i \in 1..Len(bytes) : bytes[i] < 128
Decode(bytes) == [i \in 1..Len(bytes) |-> bytes[i]]

\* value_bytes[2:]
DropTwo(bytes) == IF Len(bytes) <= 2 THEN <<>> ELSE SubSeq(bytes, 3, Len(bytes))

\* datetime.utcfromtimestamp(seconds)
UtcFromTimestamp(secs) == [secs |-> secs % 86400, days |-> secs \div 86400]

\* truth value of an optional string: None and "" are false
Truthy(optstr) == optstr # None /\ optstr[1] # <<>>

\* ------------------------------------------------------------- item model

\* an item as the inventory fetch builds it: only the asset id is known
FreshItem(aid) ==
    [def_index |-> None, asset_id |-> aid, id |-> None, inventory |-> None,
     custom_name |-> None, attribute |-> <<>>, position |-> None,
     casket_id |-> None, paint_index |-> None, paint_seed |-> None,
     paint_wear |-> None, tradable_after |-> None, stickers |-> <<>>,
     casket_contained_item_count |-> None]

\* Sticker.get_attrs(): the optional fields of a Sticker, in declaration order
StickerAttrs == <<"wear", "scale", "rotation">>

NewSticker(slot, sid) ==
    [slot |-> slot, sticker_id |-> sid, wear |-> None, scale |-> None,
     rotation |-> None]

\* the running merge of one payload: the item so far and whether a decode or
\* assignment raised (the rest of the merge is then skipped)
Running(item) == [item |-> item, raised |-> FALSE]
Raise(st) == [st EXCEPT !.raised = TRUE]

\* for attribute_name in cso_item.__annotations__: setattr(item, ...)
CopyFields(item, cso) ==
    [item EXCEPT !.id = Some(cso.id), !.inventory = Some(cso.inventory),
                 !.def_index = Some(cso.def_index),
                 !.custom_name = Some(cso.custom_name),
                 !.attribute = cso.attribute]

\* is_new = is_cache_subscribe and (cso_item.inventory >> 30) & 1
IsNew(cso, is_cache_subscribe) ==
    is_cache_subscribe /\ (cso.inventory \div Pow2(NEW_BIT)) % 2 = 1

SetPosition(item, cso, is_cache_subscribe) ==
    [item EXCEPT !.position =
        Some(IF IsNew(cso, is_cache_subscribe) THEN 0
             ELSE cso.inventory % POSITION_MASK)]

SetCasketId(st0, cso) ==
    LET F(st) ==
        LET low  == Get(cso.attribute, CASKET_LOW)
            high == Get(cso.attribute, CASKET_HIGH)
        IN  IF st.raised \/ low = None \/ high = None THEN st
            ELSE IF ~CanRead4(low[1].value_bytes) \/ ~CanRead4(high[1].value_bytes)
            THEN Raise(st)
            ELSE [st EXCEPT !.item.casket_id =
                    Some(BinConcat(READ_U32(low[1].value_bytes),
                                   READ_U32(high[1].value_bytes)))]
    IN  Val(F, st0)

SetCustomName(st0, cso) ==
    LET F(st) ==
        LET a == Get(cso.attribute, CUSTOM_NAME)
        IN  IF st.raised \/ a = None \/ Truthy(st.item.custom_name) THEN st
            ELSE IF ~CanDecode(DropTwo(a[1].value_bytes)) THEN Raise(st)
            ELSE [st EXCEPT !.item.custom_name =
                    Some(Decode(DropTwo(a[1].value_bytes)))]
    IN  Val(F, st0)

SetPaintIndex(st0, cso) ==
    LET F(st) ==
        LET a == Get(cso.attribute, PAINT_INDEX)
        IN  IF st.raised \/ a = None THEN st
            ELSE IF ~CanRead4(a[1].value_bytes) THEN Raise(st)
            ELSE [st EXCEPT !.item.paint_index = Some(READ_F32(a[1].value_bytes))]
    IN  Val(F, st0)

\* a seed that an update without the attribute resets
SetPaintSeedReset(st0, cso) ==
    LET F(st) ==
        LET a == Get(cso.attribute, PAINT_SEED)
        IN  IF st.raised THEN st
            ELSE IF a = None THEN [st EXCEPT !.item.paint_seed = None]
            ELSE IF ~CanRead4(a[1].value_bytes) THEN Raise(st)
            ELSE [st EXCEPT !.item.paint_seed =
                    Some(Floor(READ_F32(a[1].value_bytes)))]
    IN  Val(F, st0)

SetPaintSeed(st0, cso) ==
    LET F(st) ==
        LET a == Get(cso.attribute, PAINT_SEED)
        IN  IF st.raised \/ a = None THEN st
            ELSE IF ~CanRead4(a[1].value_bytes) THEN Raise(st)
            ELSE [st EXCEPT !.item.paint_seed =
                    Some(Floor(READ_F32(a[1].value_bytes)))]
    IN  Val(F, st0)

SetPaintWear(st0, cso) ==
    LET F(st) ==
        LET a == Get(cso.attribute, PAINT_WEAR)
        IN  IF st.raised \/ a = None THEN st
            ELSE IF ~CanRead4(a[1].value_bytes) THEN Raise(st)
            ELSE [st EXCEPT !.item.paint_wear = Some(READ_F32(a[1].value_bytes))]
    IN  Val(F, st0)

SetTradableAfter(st0, cso) ==
    LET F(st) ==
        LET a == Get(cso.attribute, TRADABLE_AFTER)
        IN  IF st.raised \/ a = None THEN st
            ELSE IF ~CanRead4(a[1].value_bytes) THEN Raise(st)
            ELSE [st EXCEPT !.item.tradable_after =
                    Some(UtcFromTimestamp(READ_U32(a[1].value_bytes)))]
    IN  Val(F, st0)

\* the sub-attributes of slot i are looked up on the item (which holds the
\* payload's attribute list since CopyFields); setattr is then given the
\* attribute object where the field name is expected, which raises TypeError
StickerSubPresent(item, i) ==
    \E idx \in 0..(Len(StickerAttrs) - 1) :
        Get(item.attribute, STICKER_BASE + 1 + (i * 4) + idx) # None

\* one turn of "for i in range(1, 6)"
StickerSlot(st0, cso, i) ==
    LET F(st) ==
        LET sid == Get(cso.attribute, STICKER_BASE + (i * 4))
        IN  IF st.raised \/ sid = None THEN st
            ELSE IF ~CanRead4(sid[1].value_bytes) THEN Raise(st)
            ELSE IF StickerSubPresent(st.item, i) THEN Raise(st)
            ELSE [st EXCEPT !.item.stickers =
                    Append(@, NewSticker(i, READ_U32(sid[1].value_bytes)))]
    IN  Val(F, st0)

\* lines 161-173
RECURSIVE StickerSlots(_, _, _)
StickerSlots(st, cso, i) ==
    IF i > 5 THEN st ELSE StickerSlots(StickerSlot(st, cso, i), cso, i + 1)

\* stickers appended to the ones the item has
SetStickersKept(st0, cso) ==
    LET F(st) == IF st.raised THEN st ELSE StickerSlots(st, cso, 1)
    IN  Val(F, st0)

SetStickers(st0, cso) ==
    LET F(st) ==
            IF st.raised THEN st
            ELSE StickerSlots([st EXCEPT !.item.stickers = <<>>], cso, 1)
    IN  Val(F, st0)

SetContainer(st0, cso) ==
    LET F(st) ==
        LET a == Get(cso.attribute, ITEM_COUNT)
        IN  IF st.raised \/ st.item.def_index # Some(STORAGE_UNIT) THEN st
            ELSE IF a = None
            THEN [st EXCEPT !.item.casket_contained_item_count = Some(0)]
            ELSE IF ~CanRead4(a[1].value_bytes)
            THEN Raise([st EXCEPT !.item.casket_contained_item_count = Some(0)])
            ELSE [st EXCEPT !.item.casket_contained_item_count =
                    Some(READ_U32(a[1].value_bytes))]
    IN  Val(F, st0)

\* the body of "for cso_item in cso_items" for an item found in the backpack
MergeItem(item, cso, is_cache_subscribe) ==
    SetContainer(
     SetStickers(
      SetTradableAfter(
       SetPaintWear(
        SetPaintSeed(
         SetPaintIndex(
          SetCustomName(
           SetCasketId(
            Running(SetPosition(CopyFields(item, cso), cso, is_cache_subscribe)),
            cso), cso), cso), cso), cso), cso), cso), cso)

\* utils.get(backpack, asset_id=aid): index of the first such item, 0 for None
Find(items, aid) ==
    LET idx == {i \in 1..Len(items) : items[i].asset_id = aid}
    IN  IF idx = {} THEN 0 ELSE CHOOSE i \in idx : \A j \in idx : i <= j

\* the whole merge loop over cso_items, on the items of one backpack
RECURSIVE MergeAll(_, _, _)
MergeAll(items0, csos, is_cache_subscribe) ==
    LET F(items) ==
            IF csos = <<>> THEN [raised |-> FALSE, items |-> items]
            ELSE IF Find(items, csos[1].id) = 0
            THEN MergeAll(items, Tail(csos), is_cache_subscribe)
            ELSE LET k == Find(items, csos[1].id)
                     G(m) ==
                        IF m.raised
                        THEN [raised |-> TRUE,
                              items |-> [items EXCEPT ![k] = m.item]]
                        ELSE MergeAll([items EXCEPT ![k] = m.item], Tail(csos),
                                      is_cache_subscribe)
                 IN  Val(G, MergeItem(items[k], csos[1], is_cache_subscribe))
    IN  Val(F, items0)

\* all(cso_item.id in item_ids for cso_item in cso_items)
AllKnown(items, csos) ==
    \A i \in 1..Len(csos) : Find(items, csos[i].id) # 0

\* ------------------------------------------------------------------ state

VARIABLES
    connected,      \* self._connected
    gc_connected,   \* self._gc_connected
    gc_parsers,     \* which definitions of parse_gc_client_connect are called
    backpack,       \* self.backpack: 0 is None, else a BackPack object
    heap,           \* the items of each BackPack object
    ready,          \* the client's ready event (wait_until_ready)
    server,         \* asset ids the inventory endpoint returns
    called,         \* the flag of call_once around restart_csgo
    tasks,          \* the handler coroutines in flight
    msgs,           \* messages received so far
    emitted,        \* the events dispatched by the last step
    raised,         \* the exception that left a handler in the last step
    ready_count     \* gc_ready events since the last gc_disconnect (up to 2)

vars == <<connected, gc_connected, gc_parsers, backpack, heap, ready, server,
          called, tasks, msgs, emitted, raised, ready_count>>

ItemIds == {1, 2}
Tasks == 1..MaxTasks
ObjIds == 1..(MaxTasks + 1)

FIRST_DEF == 1
SECOND_DEF == 2

Ev(name, id) == [id |-> id, name |-> name]
Names(evs) == {evs[i].name : i \in 1..Len(evs)}

Idle ==
    [csos |-> <<>>, kind |-> "idle", pc |-> "idle", no |-> 0, queue |-> <<>>,
     bp |-> 0]

\* the awaits inside update_backpack (restart_csgo included)
RestartPcs == {"presence_off", "presence_on", "connected"}
UpdatePcs ==
    {"ready", "fetch", "update", "sleep", "noop", "join", "update2"}
        \cup RestartPcs

\* bool(self.backpack): an inventory with no items is false
HasBackpack(bp, hp) == bp # 0 /\ hp[bp] # <<>>

\* the inventory as the endpoint returns it: one item per asset id, in order
RECURSIVE Fetched(_)
Fetched(ids) ==
    IF ids = {} THEN <<>>
    ELSE LET m == CHOOSE i \in ids : \A j \in ids : i <= j
         IN  <<FreshItem(m)>> \o Fetched(ids \ {m})

\* ------------------------------------------------ a task's run to an await
\* A context is the task and the state it can change; each operator below
\* runs the code from one point to the next await (or to the handler's end).

Ctx(t) ==
    [connected |-> connected, backpack |-> backpack, heap |-> heap,
     called |-> called, emitted |-> <<>>, t |-> tasks[t],
     gc |-> gc_connected, exc |-> "none"]

Suspend(c, pc) == [c EXCEPT !.t.pc = pc]
Finish(c) == [c EXCEPT !.t = Idle]
Die(c, exc) == [c EXCEPT !.t = Idle, !.exc = exc]
Emit(c, name, id) == [c EXCEPT !.emitted = Append(@, Ev(name, id))]

\* line 263: self.dispatch("item_update", before, after). before is the item
\* object found at line 259, as it reads when the event is dispatched: the
\* merge wrote into that object. after is what update_backpack returned, the
\* BackPack (line 186)
EvUpdate(id, before, after) ==
    [id |-> id, name |-> "item_update", before |-> before, after |-> after]

EmitUpdate(c0) ==
    LET F(c) ==
        LET items == c.heap[c.t.bp]
            id == c.t.csos[1].id
        IN  [c EXCEPT !.emitted =
                Append(@, EvUpdate(id, items[Find(items, id)],
                                   [items |-> items]))]
    IN  Val(F, c0)

RECURSIVE CallUB(_, _), AfterReady(_), Check1(_), Merge(_), Return(_)
RECURSIVE NextObject(_), HandleUpdate(_, _), NextCache(_)

\* lines 89-91
WelcomeEnd(c0) ==
    LET F(c) ==
        IF c.connected
        THEN Finish(Emit([c EXCEPT !.gc = TRUE], "gc_ready", 0))
        ELSE Finish(c)
    IN  Val(F, c0)

\* a loop that passes over the item objects without merging them
NextCacheSkip(c0) ==
    LET F(c) ==
        IF c.t.queue = <<>> THEN WelcomeEnd(c)
        ELSE NextCache([c EXCEPT !.t.queue = Tail(@)])
    IN  Val(F, c0)

\* lines 83-88: the loop over the objects of the first out-of-date cache
NextCache(c0) ==
    LET F(c) ==
        IF c.t.queue = <<>> THEN WelcomeEnd(c)
        ELSE LET cache == Head(c.t.queue)
                 c1 == [c EXCEPT !.t.queue = Tail(@)]
             IN  IF cache.type_id = ITEM_TYPE THEN CallUB(c1, cache.items)
                 ELSE NextCache(c1)
    IN  Val(F, c0)

\* lines 253-263 up to the call of update_backpack
HandleUpdate(c0, object) ==
    LET F(c) ==
        IF object.type_id # ITEM_TYPE THEN NextObject(c)
        ELSE IF c.backpack = 0 THEN Die(c, "TypeError")
        ELSE IF Find(c.heap[c.backpack], object.items[1].id) = 0 THEN NextObject(c)
        ELSE CallUB(c, object.items)
    IN  Val(F, c0)

\* lines 250-251 (and the end of handle_so_update, whose list has one object)
NextObject(c0) ==
    LET F(c) ==
        IF c.t.queue = <<>> THEN Finish(c)
        ELSE HandleUpdate([c EXCEPT !.t.queue = Tail(@)], Head(c.t.queue))
    IN  Val(F, c0)

\* what the caller does when update_backpack returns
Return(c0) ==
    LET F(c) ==
        CASE c.t.kind = "create"  -> Finish(Emit(c, "item_receive", c.t.csos[1].id))
          [] c.t.kind = "welcome" -> NextCache(c)
          [] OTHER -> NextObject(EmitUpdate(c))
    IN  Val(F, c0)

\* lines 120-186
Merge(c0) ==
    LET F(c) ==
        LET G(m) ==
                IF m.raised
                THEN Die([c EXCEPT !.heap[c.t.bp] = m.items], "decode")
                ELSE Return([c EXCEPT !.heap[c.t.bp] = m.items,
                                      !.backpack = c.t.bp])
        IN  Val(G, MergeAll(c.heap[c.t.bp], c.t.csos, FALSE))
    IN  Val(F, c0)

\* line 108
Check1(c0) ==
    LET F(c) ==
        IF AllKnown(c.heap[c.t.bp], c.t.csos) THEN Merge(c)
        ELSE Suspend(c, "update")
    IN  Val(F, c0)

\* line 105: self.backpack or BackPack(await self._unpatched_inventory(CSGO))
AfterReady(c0) ==
    LET F(c) ==
        IF HasBackpack(c.backpack, c.heap)
        THEN Check1([c EXCEPT !.t.bp = c.backpack])
        ELSE Suspend(c, "fetch")
    IN  Val(F, c0)

\* line 102-103
CallUB(c0, csos) ==
    LET F(c) ==
        LET c1 == [c EXCEPT !.t.csos = csos, !.t.bp = 0]
        IN  IF ready THEN AfterReady(c1) ELSE Suspend(c1, "ready")
    IN  Val(F, c0)

\* utils.call_once around restart_csgo (line 237): a call made while one is in
\* flight does not run the body; whether it returns at once or waits for the
\* call in flight is the wrapper's choice (joins)
Restart(c0, joins) ==
    LET F(c) ==
        IF c.called THEN Suspend(c, IF joins THEN "join" ELSE "noop")
        ELSE Suspend([c EXCEPT !.called = TRUE], "presence_off")
    IN  Val(F, c0)

\* lines 114-117
Check2(c0, joins) ==
    LET F(c) ==
        IF AllKnown(c.heap[c.t.bp], c.t.csos) THEN Merge(c)
        ELSE Restart(c, joins)
    IN  Val(F, c0)

\* lines 76-79
Goodbye(c0) ==
    LET F(c) ==
        [Emit(c, "gc_disconnect", 0) EXCEPT !.connected = FALSE]
    IN  Val(F, c0)

\* the end of restart_csgo and of its wrapper, then line 118
RestartDone(c) ==
    [c EXCEPT !.called = FALSE, !.t.pc = "update2"]

\* line 242
WaitConnected(c0) ==
    LET F(c) ==
        IF c.connected THEN RestartDone(c) ELSE Suspend(c, "connected")
    IN  Val(F, c0)

\* ----------------------------------------------------------------- inputs

Attr(d, bytes) == [def_index |-> d, value_bytes |-> bytes]

\* a CsoEconItem as parsed from object_data
Payload(id, inventory, def_index, attrs) ==
    [def_index |-> def_index, id |-> id, inventory |-> inventory,
     custom_name |-> <<>>, attribute |-> attrs]

\* a CMsgSoSingleObject, or one object of an out-of-date cache
Obj(type_id, items) == [items |-> items, type_id |-> type_id]

NameAttr == Attr(CUSTOM_NAME, <<10, 1, 65>>)

Plain(id) == Payload(id, 5, 1, <<>>)
Named(id) == Payload(id, 5, 1, <<NameAttr>>)

\* an item whose raw inventory field is 0x40000005: bit 30 set, low bits 5
Unsorted(id) == Payload(id, 1073741829, 1, <<>>)

SingleObjects ==
    {Obj(ITEM_TYPE, <<Plain(1)>>), Obj(ITEM_TYPE, <<Named(2)>>),
     Obj(2, <<Plain(1)>>)}

MultipleObjects ==
    {<<Obj(ITEM_TYPE, <<Named(1)>>), Obj(ITEM_TYPE, <<Plain(2)>>)>>,
     <<Obj(2, <<Plain(1)>>), Obj(ITEM_TYPE, <<Plain(1)>>)>>}

WelcomeCaches ==
    {<<>>,
     <<Obj(2, <<Plain(1)>>), Obj(ITEM_TYPE, <<Unsorted(1), Named(2)>>)>>}

\* ---------------------------------------------------------------- actions

Init ==
    /\ connected = FALSE
    /\ gc_connected = FALSE
    /\ gc_parsers \in {{SECOND_DEF}, {FIRST_DEF, SECOND_DEF}}
    /\ backpack = 0
    /\ heap = [o \in ObjIds |-> <<>>]
    /\ ready = FALSE
    /\ server = {1}
    /\ called = FALSE
    /\ tasks = [t \in Tasks |-> Idle]
    /\ msgs = 0
    /\ emitted = <<>>
    /\ raised = "none"
    /\ ready_count = 0

\* objects nothing refers to any more are dropped
Live(bp, ts) == {bp} \cup {ts[t].bp : t \in Tasks}
Collect(hp, bp, ts) ==
    [o \in ObjIds |-> IF o \in Live(bp, ts) THEN hp[o] ELSE <<>>]

\* a BackPack object no one refers to
NewObj == CHOOSE o \in ObjIds : o \notin Live(backpack, tasks)

\* gc_ready events of the session, after the events evs
RECURSIVE Counted(_, _)
Counted(n, evs) ==
    IF evs = <<>> THEN n
    ELSE Counted(CASE Head(evs).name = "gc_disconnect" -> 0
                   [] Head(evs).name = "gc_ready" /\ n < 2 -> n + 1
                   [] OTHER -> n, Tail(evs))

\* the state after task t ran to context c
Commit(t, c0) ==
    \E c \in {c0} :
    /\ connected' = c.connected
    /\ gc_connected' = c.gc
    /\ backpack' = c.backpack
    /\ called' = c.called
    /\ tasks' = [tasks EXCEPT ![t] = c.t]
    /\ heap' = Collect(c.heap, c.backpack, [tasks EXCEPT ![t] = c.t])
    /\ emitted' = c.emitted
    /\ raised' = c.exc
    /\ ready_count' = Counted(ready_count, c.emitted)
    /\ UNCHANGED <<gc_parsers, ready, server, msgs>>

\* run_parser hands a coroutine handler to the loop as a new task
FreeSlot(t) ==
    /\ tasks[t].kind = "idle"
    /\ \A u \in Tasks : tasks[u].kind = "idle" => t <= u

Spawned(ts, t, kind, queue) ==
    [ts EXCEPT ![t] = [Idle EXCEPT !.kind = kind, !.pc = "start",
                                   !.no = msgs + 1, !.queue = queue]]

\* Event.set() resolves the future of every waiter: a task waiting for
\* self._connected runs on even if the event is cleared before its turn
Wake(ts) ==
    [u \in Tasks |-> IF ts[u].pc = "connected"
                     THEN [ts[u] EXCEPT !.pc = "woken"] ELSE ts[u]]

\* a coroutine handler is called for a message: kind says which handler
Handle(kind, queue, t) ==
    /\ msgs < MaxMsgs /\ FreeSlot(t)
    /\ tasks' = Spawned(tasks, t, kind, queue)
    /\ msgs' = msgs + 1
    /\ emitted' = <<>>
    /\ raised' = "none"
    /\ UNCHANGED <<connected, gc_connected, gc_parsers, backpack, heap,
                   ready, server, called, ready_count>>

\* Language.SOCreate arrives
RecvCreate ==
    \E object \in SingleObjects, t \in Tasks : Handle("create", <<object>>, t)

\* Language.SOUpdate arrives
RecvUpdate ==
    \E object \in SingleObjects, t \in Tasks : Handle("update", <<object>>, t)

\* Language.SOUpdateMultiple arrives
RecvUpdateMultiple ==
    \E objects \in MultipleObjects, t \in Tasks : Handle("multiple", objects, t)

\* lines 70-74, the first definition of parse_gc_client_connect
FirstDefinition(c0) ==
    LET F(c) ==
        IF ~c.connected
        THEN [Emit(c, "gc_connect", 0) EXCEPT !.connected = TRUE,
                                              !.tasks = Wake(@)]
        ELSE c
    IN  Val(F, c0)

\* Language.ClientWelcome arrives. Both definitions are registered for it
\* under one name; gc_parsers says which of them the parsers hold. The first
\* definition is a plain function and runs at once, the second is a coroutine
\* and becomes a task
RecvWelcome ==
    \E caches \in WelcomeCaches, t \in Tasks :
        LET c0 == [connected |-> connected, tasks |-> tasks, emitted |-> <<>>]
            c == IF FIRST_DEF \in gc_parsers THEN FirstDefinition(c0) ELSE c0
        IN  /\ msgs < MaxMsgs /\ FreeSlot(t)
            /\ tasks' = Spawned(c.tasks, t, "welcome", caches)
            /\ msgs' = msgs + 1
            /\ connected' = c.connected
            /\ emitted' = c.emitted
            /\ raised' = "none" /\ UNCHANGED ready_count
            /\ UNCHANGED <<gc_connected, gc_parsers, backpack, heap, ready,
                           server, called>>

\* a removal that drops the last item of the list, whichever was found
DestroyLast(items, deleted) == SubSeq(items, 1, Len(items) - 1)

\* lines 265-277, for a message of type 1 while a backpack holds the item: the
\* payload's fields are copied onto the item, which is then taken off the list
DestroyItem(items, deleted) ==
    LET k == Find(items, deleted.id)
    IN  [i \in 1..(Len(items) - 1) |->
            IF i < k THEN items[i] ELSE items[i + 1]]

\* lines 265-277
HandleSoDestroy(object) ==
    LET deleted == object.items[1]
        found == /\ object.type_id = ITEM_TYPE
                 /\ HasBackpack(backpack, heap)
                 /\ Find(heap[backpack], deleted.id) # 0
    IN  /\ msgs < MaxMsgs
        /\ msgs' = msgs + 1
        /\ heap' = IF found
                   THEN [heap EXCEPT ![backpack] = DestroyItem(@, deleted)]
                   ELSE heap
        /\ emitted' = IF found THEN <<Ev("item_remove", deleted.id)>>
                      ELSE <<>>
        /\ raised' = "none"
        /\ UNCHANGED <<connected, gc_connected, gc_parsers, backpack,
                       ready, server, called, tasks, ready_count>>

\* Language.SODestroy arrives: handle_so_destroy is a plain function
RecvDestroy == \E object \in SingleObjects : HandleSoDestroy(object)

\* ---------------------------------------------------- the steps of a task

\* the loop starts the tasks in the order they were made
CanStart(t) ==
    /\ tasks[t].pc = "start"
    /\ \A u \in Tasks : tasks[u].pc = "start" => tasks[t].no <= tasks[u].no

\* lines 226-235 up to the first await
StartCreate(t) ==
    /\ CanStart(t) /\ tasks[t].kind = "create"
    /\ LET object == tasks[t].queue[1]
           c == [Ctx(t) EXCEPT !.t.queue = <<>>]
       IN  Commit(t, IF object.type_id # ITEM_TYPE THEN Finish(c)
                     ELSE CallUB(c, object.items))

\* lines 244-263 up to the first await
StartUpdate(t) ==
    /\ CanStart(t) /\ tasks[t].kind \in {"update", "multiple"}
    /\ Commit(t, NextObject(Ctx(t)))

\* lines 81-91 up to the first await
StartWelcome(t) ==
    /\ CanStart(t) /\ tasks[t].kind = "welcome"
    /\ Commit(t, NextCache(Ctx(t)))

\* line 103 returns
Ready(t) ==
    /\ tasks[t].pc = "ready" /\ ready
    /\ Commit(t, AfterReady(Ctx(t)))

\* line 105: the first fetch returns an inventory
FetchOk(t) ==
    /\ tasks[t].pc = "fetch"
    /\ LET o == NewObj
           c == [Ctx(t) EXCEPT !.heap[o] = Fetched(server), !.t.bp = o]
       IN  Commit(t, Check1(c))

\* line 105: the first fetch raises HTTPException
FetchFail(t) ==
    /\ tasks[t].pc = "fetch"
    /\ Commit(t, Die(Ctx(t), "HTTPException"))

\* line 110 returns
UpdateOk(t) ==
    /\ tasks[t].pc = "update"
    /\ \E joins \in BOOLEAN :
        Commit(t, Check2([Ctx(t) EXCEPT !.heap[tasks[t].bp] = Fetched(server)],
                         joins))

\* lines 111-112: HTTPException is caught
UpdateFail(t) ==
    /\ tasks[t].pc = "update"
    /\ Commit(t, Suspend(Ctx(t), "sleep"))

\* line 112 returns
Slept(t) ==
    /\ tasks[t].pc = "sleep"
    /\ \E joins \in BOOLEAN : Commit(t, Check2(Ctx(t), joins))

\* line 239 returns, line 240 runs
PresenceOff(t) ==
    /\ tasks[t].pc = "presence_off"
    /\ Commit(t, Suspend(Goodbye(Ctx(t)), "presence_on"))

\* line 241 returns
PresenceOn(t) ==
    /\ tasks[t].pc = "presence_on"
    /\ Commit(t, WaitConnected(Ctx(t)))

\* line 242 returns
Connected(t) ==
    /\ tasks[t].pc = "woken"
    /\ Commit(t, RestartDone(Ctx(t)))

\* the call that did not run the body returns
Noop(t) ==
    /\ \/ tasks[t].pc = "noop"
       \/ tasks[t].pc = "join" /\ ~called
    /\ Commit(t, Suspend(Ctx(t), "update2"))

\* line 118 returns
Update2Ok(t) ==
    /\ tasks[t].pc = "update2"
    /\ Commit(t, Merge([Ctx(t) EXCEPT !.heap[tasks[t].bp] = Fetched(server)]))

\* line 118 raises HTTPException
Update2Fail(t) ==
    /\ tasks[t].pc = "update2"
    /\ Commit(t, Die(Ctx(t), "HTTPException"))

\* ------------------------------------------------------- the environment

\* the client becomes ready
ClientReady ==
    /\ ~ready
    /\ ready' = TRUE
    /\ emitted' = <<>>
    /\ raised' = "none" /\ UNCHANGED ready_count
    /\ UNCHANGED <<connected, gc_connected, gc_parsers, backpack, heap,
                   server, called, tasks, msgs>>

\* the inventory on the server gains or loses an item (item 1 stays)
ServerChange ==
    \E i \in ItemIds \ {1} :
        /\ server' = IF i \in server THEN server \ {i} ELSE server \cup {i}
        /\ emitted' = <<>>
        /\ raised' = "none" /\ UNCHANGED ready_count
        /\ UNCHANGED <<connected, gc_connected, gc_parsers, backpack, heap,
                       ready, called, tasks, msgs>>

Next ==
    \/ RecvCreate
    \/ RecvUpdate
    \/ RecvUpdateMultiple
    \/ RecvWelcome
    \/ RecvDestroy
    \/ ClientReady
    \/ ServerChange
    \/ \E t \in Tasks :
        \/ StartCreate(t)
        \/ StartUpdate(t)
        \/ StartWelcome(t)
        \/ Ready(t)
        \/ FetchOk(t)
        \/ FetchFail(t)
        \/ UpdateOk(t)
        \/ UpdateFail(t)
        \/ Slept(t)
        \/ PresenceOff(t)
        \/ PresenceOn(t)
        \/ Connected(t)
        \/ Noop(t)
        \/ Update2Ok(t)
        \/ Update2Fail(t)

Spec == Init /\ [][Next]_vars

\* ------------------------------------------- the merge on richer payloads
\* SpecMerge starts from a ready client whose backpack was fetched and sends
\* SO-Update messages whose payloads carry the attributes the merge decodes.

F32_ZERO == <<0, 0, 0, 0>>
F32_HALF == <<0, 0, 0, 63>>
F32_12_9 == <<102, 102, 78, 65>>
U32_DAY == <<128, 81, 1, 0>>

PaintAttrs == <<Attr(PAINT_INDEX, F32_ZERO), Attr(PAINT_SEED, F32_12_9)>>

FullAttrs ==
    <<Attr(PAINT_INDEX, F32_HALF), Attr(PAINT_SEED, F32_12_9),
      Attr(PAINT_WEAR, F32_HALF), Attr(TRADABLE_AFTER, U32_DAY),
      Attr(STICKER_BASE + 4, <<7, 0, 0, 0>>),
      Attr(STICKER_BASE + 8, <<9, 0, 0, 0>>)>>

RichAttrs ==
    {<<>>,
     <<NameAttr>>,
     PaintAttrs,
     FullAttrs,
     <<NameAttr, Attr(TRADABLE_AFTER, <<0, 0, 0, 0>>)>>,
     <<Attr(STICKER_BASE + 4, <<7, 0, 0, 0>>),
       Attr(STICKER_BASE + 5, F32_HALF)>>,
     <<Attr(CASKET_LOW, <<1, 0, 0, 0>>), Attr(CASKET_HIGH, <<2, 0, 0, 0>>)>>,
     <<Attr(PAINT_WEAR, <<0, 0>>), Attr(TRADABLE_AFTER, U32_DAY)>>}

RichPayloads ==
    {Payload(1, 5, 1, attrs) : attrs \in RichAttrs}
        \cup {Payload(1, 1073741829, STORAGE_UNIT,
                      <<Attr(ITEM_COUNT, <<3, 0, 0, 0>>)>>),
              Payload(1, 7, STORAGE_UNIT, <<>>)}

InitMerge ==
    /\ connected = FALSE
    /\ gc_connected = FALSE
    /\ gc_parsers \in {{SECOND_DEF}, {FIRST_DEF, SECOND_DEF}}
    /\ backpack = 1
    /\ heap = [o \in ObjIds |-> IF o = 1 THEN Fetched(ItemIds) ELSE <<>>]
    /\ ready = TRUE
    /\ server = ItemIds
    /\ called = FALSE
    /\ tasks = [t \in Tasks |-> Idle]
    /\ msgs = 0
    /\ emitted = <<>>
    /\ raised = "none"
    /\ ready_count = 0

\* Language.SOUpdate arrives with one of the richer payloads
RecvUpdateRich ==
    \E cso \in RichPayloads, t \in Tasks :
        Handle("update", <<Obj(ITEM_TYPE, <<cso>>)>>, t)

NextMerge ==
    \/ RecvUpdateRich
    \/ \E t \in Tasks : StartUpdate(t)

SpecMerge == InitMerge /\ [][NextMerge]_vars

\* ------------------------------------------------------------ properties

IdsOf(items) == {items[i].asset_id : i \in 1..Len(items)}
InBackpack(id) == backpack # 0 /\ id \in IdsOf(heap[backpack])
InUpdate == {t \in Tasks : tasks[t].pc \in UpdatePcs}
InRestart == {t \in Tasks : tasks[t].pc \in RestartPcs}

\* C1: gc_ready is dispatched at most once between two gc_disconnect events
\* (and before the first): a welcome handled while the GC-ready flag is set
\* dispatches no second gc_ready.
C1_ReadyOncePerSession == ready_count <= 1

\* C2: the step that dispatches gc_disconnect (parse_client_goodbye) leaves
\* both the connected flag and the GC-ready flag unset.
C2_GoodbyeClearsFlags ==
    [][("gc_disconnect" \in Names(emitted'))
            => (~connected' /\ ~gc_connected')]_vars

\* C3: a welcome received while the connected flag is unset sets it and
\* dispatches gc_connect once; a welcome received while it is set dispatches
\* no gc_connect and leaves the flag set.
C3_WelcomeConnects ==
    [][(\E t \in Tasks : tasks[t].kind = "idle" /\ tasks'[t].kind = "welcome")
            => IF connected
               THEN connected' /\ "gc_connect" \notin Names(emitted')
               ELSE connected' /\ emitted' = <<Ev("gc_connect", 0)>>]_vars

\* C4: no item_receive and no item_update is dispatched for an id that the
\* backpack does not hold when update_backpack has merged (the payloads of
\* this specification carry no container-id attributes).
C4_NoEventForAbsentId ==
    \A i \in 1..Len(emitted) :
        emitted[i].name \in {"item_receive", "item_update"}
            => InBackpack(emitted[i].id)

\* C5: an SO-Destroy of type 1 for an id the backpack holds removes that item
\* (the other items stay, in order) and dispatches item_remove once; any
\* other SO-Destroy changes nothing and dispatches nothing.
C5_Destroy ==
    [][\A object \in SingleObjects :
        HandleSoDestroy(object) =>
            LET id == object.items[1].id
                Other(item) == item.asset_id # id
            IN  IF object.type_id = ITEM_TYPE /\ InBackpack(id)
                THEN /\ emitted' = <<Ev("item_remove", id)>>
                     /\ backpack' = backpack
                     /\ heap'[backpack] = SelectSeq(heap[backpack], Other)
                ELSE /\ emitted' = <<>>
                     /\ heap' = heap /\ backpack' = backpack]_vars

\* C5 witness: a destroy has just removed an item the backpack held
C5_Witness ==
    /\ Len(emitted) = 1 /\ emitted[1].name = "item_remove"
    /\ backpack # 0 /\ emitted[1].id \notin IdsOf(heap[backpack])

\* C6: no HTTPException leaves a handler.
C6_NoHttpExceptionEscapes == raised # "HTTPException"

\* C7: at most one invocation of update_backpack is in progress at a time.
C7_OneUpdateAtATime == Cardinality(InUpdate) <= 1

\* C8: at most one restart_csgo body is in flight, and a call made while one
\* is in flight returns only when none is in flight any more.
C8_RestartCoalesces ==
    /\ [](Cardinality(InRestart) <= 1)
    /\ [][\A t \in Tasks :
            (tasks[t].pc \in {"noop", "join"} /\ tasks'[t].pc = "update2")
                => ~called]_vars

\* the item of the backpack with asset id 1 (SpecMerge keeps it there)
ItemOf(hp, bp) == hp[bp][Find(hp[bp], 1)]

\* task t runs handle_so_update for payload cso in this step
UpdateStep(t, cso) ==
    /\ tasks[t].kind = "update" /\ tasks[t].pc = "start"
    /\ tasks[t].queue[1].items[1] = cso
    /\ tasks'[t] # tasks[t]

\* the payload merged into the item last (CopyFields keeps its fields)
MergedLast(item, cso) ==
    /\ item.id = Some(cso.id) /\ item.inventory = Some(cso.inventory)
    /\ item.def_index = Some(cso.def_index) /\ item.attribute = cso.attribute

PaintOf(item) == <<item.paint_index, item.paint_seed, item.paint_wear>>

\* C9: handling an SO-Update whose payload is the one merged into the item
\* last leaves every field of the item as it was after the first merge.
C9_SecondMergeChangesNothing ==
    [][\A t \in Tasks, cso \in RichPayloads :
        (UpdateStep(t, cso) /\ MergedLast(ItemOf(heap, backpack), cso))
            => ItemOf(heap', backpack') = ItemOf(heap, backpack)]_vars

\* C9 witness: the payload with paint, date and two stickers was handled twice
C9_Witness ==
    LET cso == Payload(1, 5, 1, FullAttrs)
        once == MergeItem(FreshItem(1), cso, FALSE).item
    IN  /\ msgs = 2 /\ \A t \in Tasks : tasks[t] = Idle
        /\ Len(emitted) = 1 /\ emitted[1].name = "item_update"
        /\ ItemOf(heap, backpack) = MergeItem(once, cso, FALSE).item
        /\ Len(ItemOf(heap, backpack).stickers) = 2

\* C10 as claimed: an update whose only attribute is the custom name leaves
\* the paint fields, the stickers and tradable_after of the item as they were.
C10_NameOnlyKeepsStickers ==
    [][\A t \in Tasks :
        UpdateStep(t, Payload(1, 5, 1, <<NameAttr>>))
            => /\ PaintOf(ItemOf(heap', backpack')) = PaintOf(ItemOf(heap, backpack))
               /\ ItemOf(heap', backpack').tradable_after
                    = ItemOf(heap, backpack).tradable_after
               /\ ItemOf(heap', backpack').stickers
                    = ItemOf(heap, backpack).stickers]_vars

\* C10 amended: such an update leaves the paint fields and tradable_after as
\* they were and leaves the item without stickers.
C10_NameOnlyKeepsPaint ==
    [][\A t \in Tasks :
        UpdateStep(t, Payload(1, 5, 1, <<NameAttr>>))
            => /\ PaintOf(ItemOf(heap', backpack')) = PaintOf(ItemOf(heap, backpack))
               /\ ItemOf(heap', backpack').tradable_after
                    = ItemOf(heap, backpack).tradable_after
               /\ ItemOf(heap', backpack').stickers = <<>>]_vars

\* C10 witness: a name-only update was merged into an item that had paint, a
\* date and stickers
C10_Witness ==
    LET item == ItemOf(heap, backpack)
    IN  /\ msgs = 2 /\ Len(emitted) = 1 /\ emitted[1].name = "item_update"
        /\ item.attribute = <<NameAttr>>
        /\ item.custom_name = Some(<<65>>)
        /\ item.paint_seed = Some(12) /\ item.paint_wear # None
        /\ item.tradable_after = Some([secs |-> 0, days |-> 1])
        /\ item.stickers = <<>>

\* C11: no item of the backpack's item list has casket_id set.
C11_NoCasketIdAtTopLevel ==
    backpack # 0 =>
        \A i \in 1..Len(heap[backpack]) : heap[backpack][i].casket_id = None

\* C12: an item merged from a welcome's out-of-date cache whose raw inventory
\* field has bit 30 set (only the welcome caches of Spec carry 0x40000005) has
\* position 0.
C12_CacheItemPositionZero ==
    backpack # 0 =>
        \A i \in 1..Len(heap[backpack]) :
            heap[backpack][i].inventory = Some(Unsorted(1).inventory)
                => heap[backpack][i].position = Some(0)

\* the update_backpack calls a welcome task has not completed yet: the one it
\* is suspended in, then one for every item object left in its queue
Pending(task) ==
    LET IsItem(o) == o.type_id = ITEM_TYPE
        left == SelectSeq(task.queue, IsItem)
    IN  (IF task.pc \in UpdatePcs \cup {"woken"} THEN <<task.csos>> ELSE <<>>)
            \o [i \in 1..Len(left) |-> left[i].items]

\* bp is a BackPack and every payload of csos is merged into the item of
\* hp[bp] with its id, if there is one
MergedAll(csos, hp, bp) ==
    /\ bp # 0
    /\ \A j \in 1..Len(csos) :
        LET k == Find(hp[bp], csos[j].id)
        IN  k # 0 => MergedLast(hp[bp][k], csos[j])

\* C13: in every step of a welcome task the calls still pending are a tail of
\* those pending before, the calls completed in the step have merged their
\* payloads into the published backpack unless the task ended with an
\* exception, and gc_ready is dispatched only in a step that leaves no call
\* pending and raised nothing: gc_ready follows the merge of every item
\* object of its own welcome.
C13_ReadyAfterCacheMerge ==
    [][\A t \in Tasks :
        (tasks[t].kind = "welcome" /\ tasks'[t] # tasks[t]) =>
            LET before == Pending(tasks[t])
                after == Pending(tasks'[t])
                done == Len(before) - Len(after)
            IN  /\ done >= 0
                /\ after = SubSeq(before, done + 1, Len(before))
                /\ raised' = "none" =>
                    \A k \in 1..done : MergedAll(before[k], heap', backpack')
                /\ "gc_ready" \in Names(emitted') =>
                    (after = <<>> /\ raised' = "none" /\ tasks'[t] = Idle)]_vars

\* C13 witness: the only message so far is a welcome with two items in its
\* cache; both are merged and gc_ready was dispatched
C13_Witness ==
    /\ msgs = 1 /\ "gc_ready" \in Names(emitted) /\ backpack # 0
    /\ MergedAll(<<Unsorted(1), Named(2)>>, heap, backpack)
    /\ IdsOf(heap[backpack]) = {1, 2}

\* C14: a task that has slept the backoff after a failed refetch (line 112)
\* fetches the inventory again before it restarts the session: its next
\* await is a fetch, not one of restart_csgo.
C14_RetryAfterBackoff ==
    [][\A t \in Tasks :
        (tasks[t].pc = "sleep" /\ tasks'[t] # tasks[t])
            => tasks'[t].pc \in {"fetch", "update"}]_vars

\* C15: a welcome received while restart_csgo waits for the connected flag
\* (line 242) ends the wait, so that the task goes on to the refetch of line
\* 118: no task stays at the wait once the GC has answered.
C15_WelcomeEndsRestart ==
    [][\A t \in Tasks :
        (/\ tasks[t].pc = "connected"
         /\ \E u \in Tasks : tasks[u].kind = "idle" /\ tasks'[u].kind = "welcome")
            => tasks'[t].pc = "woken"]_vars

\* every attribute value of the payload has the 4 bytes its decoder reads
\* (the name attribute needs none)
WellFormed(cso) ==
    \A i \in 1..Len(cso.attribute) :
        cso.attribute[i].def_index # CUSTOM_NAME
            => CanRead4(cso.attribute[i].value_bytes)

\* the name an item shows: no name and the empty name are the same
NameOf(item) == IF Truthy(item.custom_name) THEN item.custom_name[1] ELSE <<>>

\* C16: after an SO-Update is merged into an item, custom_name is the decoded
\* name attribute (the bytes after the 2-byte prefix) when the payload has
\* attribute 111, and is the item's custom_name from before the merge when it
\* has not.
C16_CustomNameFrame ==
    [][\A t \in Tasks, cso \in RichPayloads :
        (UpdateStep(t, cso) /\ WellFormed(cso) /\ raised' = "none") =>
            LET a == Get(cso.attribute, CUSTOM_NAME)
            IN  NameOf(ItemOf(heap', backpack')) =
                    IF a # None THEN Decode(DropTwo(a[1].value_bytes))
                    ELSE NameOf(ItemOf(heap, backpack))]_vars

\* the stickers a payload asserts: one per slot 1..5 whose id attribute is
\* present, in slot order, with the sub-attributes that are present decoded
RECURSIVE AssertedStickers(_, _)
AssertedStickers(cso, i) ==
    IF i > 5 THEN <<>>
    ELSE LET sid == Get(cso.attribute, STICKER_BASE + (i * 4))
             Sub(idx) ==
                LET a == Get(cso.attribute, STICKER_BASE + 1 + (i * 4) + idx)
                IN  IF a = None THEN None ELSE Some(READ_F32(a[1].value_bytes))
             this == IF sid = None THEN <<>>
                     ELSE <<[slot |-> i,
                             sticker_id |-> READ_U32(sid[1].value_bytes),
                             wear |-> Sub(0), scale |-> Sub(1),
                             rotation |-> Sub(2)]>>
         IN  this \o AssertedStickers(cso, i + 1)

\* C17: the merge of every payload whose attribute values can be decoded
\* completes, and leaves as the item's stickers exactly the stickers the
\* payload asserts.
C17_StickersRebuilt ==
    [][\A t \in Tasks, cso \in RichPayloads :
        (UpdateStep(t, cso) /\ WellFormed(cso)) =>
            /\ raised' = "none"
            /\ ItemOf(heap', backpack').stickers = AssertedStickers(cso, 1)]_vars

\* n = (high << 32) | low, for low and high below 2^32: stated on the 16-bit
\* quarters of n so that no intermediate value leaves the integers at hand
IsShiftOr(n, high, low) ==
    /\ n % 65536 = low % 65536
    /\ (n \div 65536) % 65536 = low \div 65536
    /\ (n \div 65536) \div 65536 = high

\* C18: the casket_id the merge assigns from attributes 272 (low) and 273
\* (high) is (high << 32) | low.
C18_CasketIdShiftOr ==
    [][\A t \in Tasks, cso \in RichPayloads :
        LET low == Get(cso.attribute, CASKET_LOW)
            high == Get(cso.attribute, CASKET_HIGH)
        IN  (/\ UpdateStep(t, cso) /\ WellFormed(cso)
             /\ low # None /\ high # None) =>
                /\ ItemOf(heap', backpack').casket_id # None
                /\ IsShiftOr(ItemOf(heap', backpack').casket_id[1],
                             READ_U32(high[1].value_bytes),
                             READ_U32(low[1].value_bytes))]_vars

\* C19: when a decode of update_backpack fails on an attribute value shorter
\* than 4 bytes, the handler ends with the exception and every item of the
\* backpack is as it was before the message.
C19_AllOrNothing ==
    [][\A t \in Tasks, cso \in RichPayloads :
        (UpdateStep(t, cso) /\ ~WellFormed(cso)) =>
            /\ raised' # "none" /\ tasks'[t] = Idle
            /\ backpack' = backpack
            /\ heap'[backpack'] = heap[backpack]]_vars

\* C20: the item_update event of an SO-Update carries as before the item as
\* it was before the merge and as after the merged item.
C20_UpdateEventBeforeAfter ==
    [][\A t \in Tasks, cso \in RichPayloads :
        (UpdateStep(t, cso) /\ "item_update" \in Names(emitted')) =>
            /\ emitted'[1].before = ItemOf(heap, backpack)
            /\ emitted'[1].after = ItemOf(heap', backpack')]_vars

====
